---- MODULE Spec2Model ----
(***************************************************************************)
(* Model of the booking engine of the hair-salon backend: the availability *)
(* query, the reservation preview, the reservation commit, the             *)
(* cancellation (routes/termini.js) and the stylist signup that writes the *)
(* specialization rows the capability check reads.                         *)
(*                                                                         *)
(* The relational store is modelled by its tables (sets of rows).  Every   *)
(* `await` of a handler is one atomic step: the store executes the query   *)
(* and the handler runs on to its next await or to its response.  Times of *)
(* day are minutes after midnight inside the store; a DATETIME is          *)
(* day * 1440 + minutes.  Strings 'HH:MM' are pairs <<h, m>>, strings      *)
(* 'HH:MM:SS' are triples <<h, m, s>>.                                     *)
(***************************************************************************)
EXTENDS Integers, Sequences, FiniteSets, TLC

\* ----------------------------------------------------------------- bounds
\* Number of appointment ids the store hands out (termini.ID auto-increment).
MaxTermini == 2
\* Number of ticks (30 minutes each) the clock advances.
MaxTik == 3
\* Number of stylist accounts (frizerji.ID auto-increment).
MaxFrizer == 3
\* Number of injected store failures in one run.
MaxNapak == 2

\* ------------------------------------------------------------- time values
MinutNaDan == 24 * 60

\* MySQL's conversion of an 'HH:MM' string to a TIME value.
SqlTime(ura) == ura[1] * 60 + ura[2]

\* The string `${dan} ${ura}:00` as MySQL reads it: a DATETIME.
SqlDateTime(dan, ura) == dan * MinutNaDan + SqlTime(ura)

\* DATE_ADD(cas, INTERVAL n MINUTE)
DateAdd(cas, n) == cas + n

\* The driver's rendering of a TIME value: 'HH:MM:SS'.
TimeStr(t) == <<t \div 60, t % 60, 0>>

\* A variant of the conversion that reads the hours only.
casVMinuteSamoUre(time) == time[1] * 60

casVMinute(time) == time[1] * 60 + time[2]

minuteVCas(minutes) == <<minutes \div 60, minutes % 60>>

\* ------------------------------------------------------------------ helpers
Range(s) == {s[i] : i \in 1..Len(s)}

\* SUM(Trajanje) over a set of storitve rows (0 stands for SQL NULL: both are
\* falsy in the handlers).
RECURSIVE SumTrajanje(_)
SumTrajanje(S) ==
    IF S = {} THEN 0
    ELSE LET x == CHOOSE y \in S : TRUE IN x.Trajanje + SumTrajanje(S \ {x})

\* SUM(Cena) over a set of storitve rows.
RECURSIVE SumCena(_)
SumCena(S) ==
    IF S = {} THEN 0
    ELSE LET x == CHOOSE y \in S : TRUE IN x.Cena + SumCena(S \ {x})

\* ------------------------------------------------------------------- state
VARIABLES
    frizerji,          \* table frizerji: rows [ID, Uporabnisko_ime]
    specializacija,    \* table specializacija: rows [Frizerji_id, Naziv, Poz]
    delovnik,          \* table delovnik: rows [Frizerji_id, Dan, Zacetek, Konec]
    storitve,          \* table storitve: rows [ID, Ime, Cena, Trajanje]
    termini,           \* table termini: committed rows
    termini_storitve,  \* table termini_storitve: committed rows
    naslednjiID,       \* next auto-increment value of termini.ID
    zdaj,              \* the clock (minutes)
    zahteve,           \* the requests being served, one per slot
    napake             \* store failures injected so far

vars == <<frizerji, specializacija, delovnik, storitve, termini, termini_storitve,
          naslednjiID, zdaj, zahteve, napake>>

shramba == <<frizerji, specializacija, delovnik, storitve, termini, termini_storitve>>

\* Request slots (requests served at the same time).
Reze == {1, 2}

\* ------------------------------------------------------------ SQL queries
\* SELECT ... FROM frizerji WHERE ID = ?
FrizerPoID(f) == {x \in frizerji : x.ID = f}

\* SELECT s.ID FROM storitve s JOIN specializacija sp ON s.Ime = sp.Naziv
\* WHERE sp.Frizerji_id = ? AND s.ID IN (?): one result row per joined pair.
FrizerStoritve(f, sez) ==
    {<<s, sp>> \in storitve \X specializacija :
        /\ s.Ime = sp.Naziv
        /\ sp.Frizerji_id = f
        /\ s.ID \in Range(sez)}

\* SELECT * FROM delovnik WHERE Frizerji_id = ? AND Dan = ?
\*   AND ? BETWEEN Zacetek AND Konec
DelovnikOb(f, dan, ura) ==
    {d \in delovnik :
        /\ d.Frizerji_id = f
        /\ d.Dan = dan
        /\ d.Zacetek <= SqlTime(ura) /\ SqlTime(ura) <= d.Konec}

\* SELECT ... FROM storitve WHERE ID IN (?)
StoritvePoID(sez) == {s \in storitve : s.ID \in Range(sez)}

\* SELECT * FROM termini WHERE Frizerji_id = ? AND Status = 'Rezervirano' AND
\*   (Cas_termina < DATE_ADD(?, INTERVAL ? MINUTE) AND
\*    DATE_ADD(Cas_termina, INTERVAL ? MINUTE) > ?)
\* with parameters [frizer_ID, cas_termina, trajanje, trajanje, cas_termina].
Zasedeni(f, cas_termina, trajanje) ==
    {t \in termini :
        /\ t.Frizerji_id = f
        /\ t.Status = "Rezervirano"
        /\ t.Cas_termina < DateAdd(cas_termina, trajanje)
        /\ DateAdd(t.Cas_termina, trajanje) > cas_termina}

\* -------------------------------------------------------- requests, answers
BrezOdgovora == [status |-> 0, message |-> "", termin_ID |-> 0, trajanje |-> 0,
                 moznosti |-> <<>>, razlog |-> "", konec_termina |-> 0,
                 skupna_cena |-> 0]

Odgovor(status, message) == [BrezOdgovora EXCEPT !.status = status, !.message = message]

\* A free slot.
Prosta == [faza |-> "prosta", vrsta |-> "", uporabnik_ID |-> 0, frizer_ID |-> 0,
           dan |-> 0, ura |-> <<0, 0>>, storitve |-> <<>>, termin_ID |-> 0,
           Uporabnisko_ime |-> "", Specializacije |-> <<>>,
           povezava |-> FALSE, trajanje |-> 0, insertId |-> 0,
           tx_termini |-> {}, tx_storitve |-> {}, termin |-> {}, zdaj |-> 0,
           delovnik |-> <<>>, rezervacije |-> <<>>, prostiBloki |-> <<>>,
           videni |-> {}, socasna |-> FALSE, po_vstavitvi |-> FALSE,
           naziv |-> <<>>, Trajanje |-> <<>>, Cena |-> <<>>, storitev |-> {},
           odgovor |-> BrezOdgovora]

\* A request as it arrives: the fields of the body, the authenticated client.
Vhod(vrsta, u, f, dan, ura, sez, tid) ==
    [vrsta |-> vrsta, uporabnik_ID |-> u, frizer_ID |-> f, dan |-> dan, ura |-> ura,
     storitve |-> sez, termin_ID |-> tid, Uporabnisko_ime |-> "", Specializacije |-> <<>>,
     naziv |-> <<>>, Trajanje |-> <<>>, Cena |-> <<>>]

VTeku(r) == zahteve[r].faza \notin {"prosta", "konec"}

\* The handler's response ends the request.
Odgovori(r, z, odg) ==
    zahteve' = [zahteve EXCEPT ![r] = [z EXCEPT !.faza = "konec", !.odgovor = odg]]

Naprej(r, z, faza) ==
    zahteve' = [zahteve EXCEPT ![r] = [z EXCEPT !.faza = faza]]

\* The check of the body's fields at the top of predogled and rezervacija:
\* !frizer_ID || !dan || !ura || !Array.isArray(storitve) || storitve.length === 0
ManjkajoPodatki(z) ==
    z.frizer_ID = 0 \/ z.dan = 0 \/ z.ura = <<>> \/ Len(z.storitve) = 0

\* A request arrives at a free slot; its handler runs to its first await.
Sprejmi(r, v) ==
    zahteve' = [q \in Reze |->
        IF q = r
        THEN [Prosta EXCEPT !.faza = "zacetek", !.vrsta = v.vrsta,
                !.uporabnik_ID = v.uporabnik_ID, !.frizer_ID = v.frizer_ID,
                !.dan = v.dan, !.ura = v.ura, !.storitve = v.storitve,
                !.termin_ID = v.termin_ID, !.Uporabnisko_ime = v.Uporabnisko_ime,
                !.Specializacije = v.Specializacije,
                !.naziv = v.naziv, !.Trajanje = v.Trajanje, !.Cena = v.Cena,
                !.videni = {t.ID : t \in termini},
                !.socasna = \E o \in Reze \ {r} : VTeku(o)]
        ELSE IF VTeku(q) THEN [zahteve[q] EXCEPT !.socasna = TRUE]
        ELSE zahteve[q]]

\* ----------------------------------------------- POST /termini/rezervacija
\* Rows a handler has written in its open transaction: other connections do
\* not see them before the commit.
RezArrives(r, v) ==
    /\ zahteve[r].faza = "prosta"
    /\ v.vrsta = "rezervacija"
    /\ naslednjiID + Cardinality({q \in Reze : zahteve[q].vrsta = "rezervacija"
                                              /\ VTeku(q) /\ zahteve[q].insertId = 0})
           <= MaxTermini
    /\ Sprejmi(r, v)
    /\ UNCHANGED <<shramba, naslednjiID, zdaj, napake>>

\* const connection = await pool.getConnection(); then the check of the fields.
\* The commit request that arrives after MaxTermini appointment ids have
\* been handed out, with no other commit in flight.
RezArrivesZadnja(r, v) ==
    /\ zahteve[r].faza = "prosta"
    /\ v.vrsta = "rezervacija"
    /\ naslednjiID = MaxTermini + 1
    /\ \A q \in Reze : ~(zahteve[q].vrsta = "rezervacija" /\ VTeku(q))
    /\ Sprejmi(r, v)
    /\ UNCHANGED <<shramba, naslednjiID, zdaj, napake>>

RezPovezava(r) ==
    LET z == [zahteve[r] EXCEPT !.povezava = TRUE] IN
    /\ zahteve[r].vrsta = "rezervacija" /\ zahteve[r].faza = "zacetek"
    /\ IF ManjkajoPodatki(z)
       THEN Odgovori(r, [z EXCEPT !.povezava = FALSE],
                     Odgovor(400, "Manjkajoci podatki za rezervacijo."))
       ELSE Naprej(r, z, "frizer")
    /\ UNCHANGED <<shramba, naslednjiID, zdaj, napake>>

\* A variant of the early return that skips the finally block.
RezVrniBrezSprostitve(r, z, status, message) ==
    Odgovori(r, z, Odgovor(status, message))

\* The early returns of the try block run the finally block: release.
RezVrni(r, z, status, message) ==
    Odgovori(r, [z EXCEPT !.povezava = FALSE], Odgovor(status, message))

RezFrizer(r) ==
    LET z == zahteve[r] IN
    /\ z.vrsta = "rezervacija" /\ z.faza = "frizer"
    /\ IF FrizerPoID(z.frizer_ID) = {}
       THEN RezVrni(r, z, 404, "Izbrani frizer ne obstaja.")
       ELSE Naprej(r, z, "specializacija")
    /\ UNCHANGED <<shramba, naslednjiID, zdaj, napake>>

\* frizer_storitve.length !== storitve.length
NeIzvajaVseh(f, sez) == Cardinality(FrizerStoritve(f, sez)) # Len(sez)

RezSpecializacija(r) ==
    LET z == zahteve[r] IN
    /\ z.vrsta = "rezervacija" /\ z.faza = "specializacija"
    /\ IF NeIzvajaVseh(z.frizer_ID, z.storitve)
       THEN RezVrni(r, z, 400, "Frizer ne izvaja vseh izbranih storitev.")
       ELSE Naprej(r, z, "delovnik")
    /\ UNCHANGED <<shramba, naslednjiID, zdaj, napake>>

RezDelovnik(r) ==
    LET z == zahteve[r] IN
    /\ z.vrsta = "rezervacija" /\ z.faza = "delovnik"
    /\ IF DelovnikOb(z.frizer_ID, z.dan, z.ura) = {}
       THEN RezVrni(r, z, 409, "Frizer v izbranem terminu ni na voljo.")
       ELSE Naprej(r, z, "trajanje")
    /\ UNCHANGED <<shramba, naslednjiID, zdaj, napake>>

RezTrajanje(r) ==
    LET z == zahteve[r]
        trajanje == SumTrajanje(StoritvePoID(z.storitve)) IN
    /\ z.vrsta = "rezervacija" /\ z.faza = "trajanje"
    /\ IF trajanje = 0
       THEN RezVrni(r, z, 400, "Navedene storitve niso veljavne.")
       ELSE Naprej(r, [z EXCEPT !.trajanje = trajanje], "zasedenost")
    /\ UNCHANGED <<shramba, naslednjiID, zdaj, napake>>

RezZasedenost(r) ==
    LET z == zahteve[r]
        cas_termina == SqlDateTime(z.dan, z.ura) IN
    /\ z.vrsta = "rezervacija" /\ z.faza = "zasedenost"
    /\ IF Zasedeni(z.frizer_ID, cas_termina, z.trajanje) # {}
       THEN RezVrni(r, z, 409, "Izbrani termin ni na voljo.")
       ELSE Naprej(r, z, "transakcija")
    /\ UNCHANGED <<shramba, naslednjiID, zdaj, napake>>

\* await connection.beginTransaction()
RezTransakcija(r) ==
    LET z == zahteve[r] IN
    /\ z.vrsta = "rezervacija" /\ z.faza = "transakcija"
    /\ Naprej(r, z, "vstavi_termin")
    /\ UNCHANGED <<shramba, naslednjiID, zdaj, napake>>

\* A variant of the inserted row with the stylist's id in the owner column.
NovTerminTujLastnik(id, z) ==
    [ID |-> id, Uporabniki_id |-> z.frizer_ID, Frizerji_id |-> z.frizer_ID,
     Cas_termina |-> SqlDateTime(z.dan, z.ura), Status |-> "Rezervirano"]

\* The row INSERT INTO termini writes.
NovTermin(id, z) ==
    [ID |-> id, Uporabniki_id |-> z.uporabnik_ID, Frizerji_id |-> z.frizer_ID,
     Cas_termina |-> SqlDateTime(z.dan, z.ura), Status |-> "Rezervirano"]

\* INSERT INTO termini; insertId is the auto-increment value, which the store
\* does not hand out again after a rollback.
RezVstaviTermin(r) ==
    LET z == zahteve[r] IN
    /\ z.vrsta = "rezervacija" /\ z.faza = "vstavi_termin"
    /\ Naprej(r, [z EXCEPT !.insertId = naslednjiID,
                           !.tx_termini = {NovTermin(naslednjiID, z)},
                           !.po_vstavitvi = TRUE], "vstavi_storitve")
    /\ naslednjiID' = naslednjiID + 1
    /\ UNCHANGED <<shramba, zdaj, napake>>

\* storitve.map(ID => [termini_ID, ID]): one row per element of the list.
StoritveValues(termini_ID, sez) ==
    {[Termini_id |-> termini_ID, Storitve_id |-> sez[i], Poz |-> i] : i \in 1..Len(sez)}

RezVstaviStoritve(r) ==
    LET z == zahteve[r] IN
    /\ z.vrsta = "rezervacija" /\ z.faza = "vstavi_storitve"
    /\ Naprej(r, [z EXCEPT !.tx_storitve = StoritveValues(z.insertId, z.storitve)],
              "commit")
    /\ UNCHANGED <<shramba, naslednjiID, zdaj, napake>>

\* await connection.commit(): the rows of the transaction become visible at
\* once; then the 201 response and the release of the finally block.
RezCommit(r) ==
    LET z == zahteve[r] IN
    /\ z.vrsta = "rezervacija" /\ z.faza = "commit"
    /\ termini' = termini \cup z.tx_termini
    /\ termini_storitve' = termini_storitve \cup z.tx_storitve
    /\ Odgovori(r, [z EXCEPT !.povezava = FALSE, !.tx_termini = {}, !.tx_storitve = {}],
                [Odgovor(201, "Termin uspesno rezerviran.") EXCEPT !.termin_ID = z.insertId])
    /\ UNCHANGED <<frizerji, specializacija, delovnik, storitve, naslednjiID, zdaj,
                   napake>>

\* A store operation awaited inside the try block rejects: control passes to
\* the catch block.
RezNapaka(r) ==
    LET z == zahteve[r] IN
    /\ z.vrsta = "rezervacija"
    /\ z.faza \in {"frizer", "specializacija", "delovnik", "trajanje", "zasedenost",
                   "transakcija", "vstavi_termin", "vstavi_storitve", "commit"}
    /\ napake < MaxNapak
    /\ napake' = napake + 1
    /\ Naprej(r, z, "catch")
    /\ UNCHANGED <<shramba, naslednjiID, zdaj>>

\* A variant of the catch block that commits what the transaction holds.
RezRollbackKiPotrdi(r) ==
    LET z == zahteve[r] IN
    /\ z.vrsta = "rezervacija" /\ z.faza = "catch"
    /\ termini' = termini \cup z.tx_termini
    /\ termini_storitve' = termini_storitve \cup z.tx_storitve
    /\ Odgovori(r, [z EXCEPT !.povezava = FALSE, !.tx_termini = {}, !.tx_storitve = {}],
                Odgovor(500, "Napaka pri rezervaciji termina."))
    /\ UNCHANGED <<frizerji, specializacija, delovnik, storitve, naslednjiID, zdaj,
                   napake>>

\* catch: await connection.rollback(); the 500 response; finally: release.
RezRollback(r) ==
    LET z == zahteve[r] IN
    /\ z.vrsta = "rezervacija" /\ z.faza = "catch"
    /\ Odgovori(r, [z EXCEPT !.povezava = FALSE, !.tx_termini = {}, !.tx_storitve = {}],
                Odgovor(500, "Napaka pri rezervaciji termina."))
    /\ UNCHANGED <<shramba, naslednjiID, zdaj, napake>>

\* catch: connection.rollback() itself rejects (the connection is lost, the
\* store drops the open transaction): the catch block throws before it
\* responds, the finally block releases, the request gets no response.
RezRollbackNapaka(r) ==
    LET z == zahteve[r] IN
    /\ z.vrsta = "rezervacija" /\ z.faza = "catch"
    /\ napake < MaxNapak
    /\ napake' = napake + 1
    /\ Odgovori(r, [z EXCEPT !.povezava = FALSE, !.tx_termini = {}, !.tx_storitve = {}],
                BrezOdgovora)
    /\ UNCHANGED <<shramba, naslednjiID, zdaj>>

\* pool.getConnection() rejects: it is awaited outside the try block, so the
\* handler ends without a response and without a connection.
RezPovezavaNapaka(r) ==
    LET z == zahteve[r] IN
    /\ z.vrsta = "rezervacija" /\ z.faza = "zacetek"
    /\ napake < MaxNapak
    /\ napake' = napake + 1
    /\ Odgovori(r, z, BrezOdgovora)
    /\ UNCHANGED <<shramba, naslednjiID, zdaj>>

\* ------------------------------------------------- POST /termini/predogled
PredArrives(r, v) ==
    /\ zahteve[r].faza = "prosta"
    /\ v.vrsta = "predogled"
    /\ Sprejmi(r, v)
    /\ UNCHANGED <<shramba, naslednjiID, zdaj, napake>>

PredFrizer(r) ==
    LET z == zahteve[r] IN
    /\ z.vrsta = "predogled" /\ z.faza = "zacetek"
    /\ IF ManjkajoPodatki(z)
       THEN Odgovori(r, z, Odgovor(400, "Manjkajoci podatki za rezervacijo."))
       ELSE IF FrizerPoID(z.frizer_ID) = {}
       THEN Odgovori(r, z, Odgovor(404, "Izbrani frizer ne obstaja."))
       ELSE Naprej(r, z, "storitve")
    /\ UNCHANGED <<shramba, naslednjiID, zdaj, napake>>

\* storitveRows.length !== storitve.length
PredStoritve(r) ==
    LET z == zahteve[r] IN
    /\ z.vrsta = "predogled" /\ z.faza = "storitve"
    /\ IF Cardinality(StoritvePoID(z.storitve)) # Len(z.storitve)
       THEN Odgovori(r, z, Odgovor(400, "Navedene storitve niso veljavne."))
       ELSE Naprej(r, z, "vsota")
    /\ UNCHANGED <<shramba, naslednjiID, zdaj, napake>>

\* !skupno_trajanje || !skupna_cena
PredVsota(r) ==
    LET z == zahteve[r]
        skupna_cena == SumCena(StoritvePoID(z.storitve))
        skupno_trajanje == SumTrajanje(StoritvePoID(z.storitve)) IN
    /\ z.vrsta = "predogled" /\ z.faza = "vsota"
    /\ IF skupno_trajanje = 0 \/ skupna_cena = 0
       THEN Odgovori(r, z, Odgovor(400, "Navedene storitve niso veljavne."))
       ELSE Naprej(r, [z EXCEPT !.trajanje = skupno_trajanje,
                                !.odgovor.skupna_cena = skupna_cena], "specializacija")
    /\ UNCHANGED <<shramba, naslednjiID, zdaj, napake>>

PredSpecializacija(r) ==
    LET z == zahteve[r] IN
    /\ z.vrsta = "predogled" /\ z.faza = "specializacija"
    /\ IF NeIzvajaVseh(z.frizer_ID, z.storitve)
       THEN Odgovori(r, z, Odgovor(400, "Frizer ne izvaja vseh izbranih storitev."))
       ELSE Naprej(r, z, "delovnik")
    /\ UNCHANGED <<shramba, naslednjiID, zdaj, napake>>

PredDelovnik(r) ==
    LET z == zahteve[r] IN
    /\ z.vrsta = "predogled" /\ z.faza = "delovnik"
    /\ IF DelovnikOb(z.frizer_ID, z.dan, z.ura) = {}
       THEN Odgovori(r, z, Odgovor(409, "Frizer v izbranem terminu ni na voljo."))
       ELSE Naprej(r, z, "zasedenost")
    /\ UNCHANGED <<shramba, naslednjiID, zdaj, napake>>

PredZasedenost(r) ==
    LET z == zahteve[r]
        cas_termina == SqlDateTime(z.dan, z.ura) IN
    /\ z.vrsta = "predogled" /\ z.faza = "zasedenost"
    /\ IF Zasedeni(z.frizer_ID, cas_termina, z.trajanje) # {}
       THEN Odgovori(r, z, Odgovor(409, "Izbrani termin ni na voljo."))
       ELSE Naprej(r, z, "konec_termina")
    /\ UNCHANGED <<shramba, naslednjiID, zdaj, napake>>

\* A variant of the summary step that also stores the previewed appointment.
PredPovzetekVstavi(r) ==
    LET z == zahteve[r]
        cas_termina == SqlDateTime(z.dan, z.ura) IN
    /\ z.vrsta = "predogled" /\ z.faza = "konec_termina"
    /\ termini' = termini \cup
          {[ID |-> 0, Uporabniki_id |-> z.uporabnik_ID, Frizerji_id |-> z.frizer_ID,
            Cas_termina |-> cas_termina, Status |-> "Rezervirano"]}
    /\ Odgovori(r, z, [z.odgovor EXCEPT !.status = 200,
                          !.trajanje = z.trajanje,
                          !.konec_termina = DateAdd(cas_termina, z.trajanje)])
    /\ UNCHANGED <<frizerji, specializacija, delovnik, storitve, termini_storitve,
                   naslednjiID, zdaj, napake>>

\* SELECT DATE_ADD(?, INTERVAL ? MINUTE) AS konec_termina; then the summary.
PredPovzetek(r) ==
    LET z == zahteve[r]
        cas_termina == SqlDateTime(z.dan, z.ura) IN
    /\ z.vrsta = "predogled" /\ z.faza = "konec_termina"
    /\ Odgovori(r, z, [z.odgovor EXCEPT !.status = 200,
                          !.trajanje = z.trajanje,
                          !.konec_termina = DateAdd(cas_termina, z.trajanje)])
    /\ UNCHANGED <<shramba, naslednjiID, zdaj, napake>>

\* ------------------------------------------------ the interval arithmetic
\* A variant of the callback that drops what is left of the block after the
\* booking.
OdreziBlokBrezDesnega(blok, rezStart, rezEnd) ==
    IF rezEnd <= blok.start \/ rezStart >= blok.end
    THEN <<blok>>
    ELSE IF rezStart > blok.start
         THEN <<[start |-> blok.start, end |-> rezStart]>> ELSE <<>>

\* The body of the flatMap callback: what one booking leaves of one block.
OdreziBlok(blok, rezStart, rezEnd) ==
    IF rezEnd <= blok.start \/ rezStart >= blok.end
    THEN <<blok>>
    ELSE (IF rezStart > blok.start
          THEN <<[start |-> blok.start, end |-> rezStart]>> ELSE <<>>)
         \o
         (IF rezEnd < blok.end
          THEN <<[start |-> rezEnd, end |-> blok.end]>> ELSE <<>>)

RECURSIVE FlatMapBloki(_, _, _)
FlatMapBloki(bloki, rezStart, rezEnd) ==
    IF bloki = <<>> THEN <<>>
    ELSE OdreziBlok(Head(bloki), rezStart, rezEnd)
         \o FlatMapBloki(Tail(bloki), rezStart, rezEnd)

\* A variant of the loop whose overlapping blocks lose their first half
\* hour instead of the booked part.
RECURSIVE OdstejPolUre(_, _)
OdstejPolUre(bloki, rezervacije) ==
    IF rezervacije = <<>> THEN bloki
    ELSE LET rezStart == casVMinute(Head(rezervacije).zacetek)
             rezEnd == casVMinute(Head(rezervacije).konec)
             Krajsi(b) == IF rezEnd <= b.start \/ rezStart >= b.end THEN b
                          ELSE [start |-> b.start + 30, end |-> b.end]
         IN OdstejPolUre([i \in 1..Len(bloki) |-> Krajsi(bloki[i])], Tail(rezervacije))

RECURSIVE OdstejRezervacije(_, _)
OdstejRezervacije(bloki, rezervacije) ==
    IF rezervacije = <<>> THEN bloki
    ELSE OdstejRezervacije(
            FlatMapBloki(bloki, casVMinute(Head(rezervacije).zacetek),
                                casVMinute(Head(rezervacije).konec)),
            Tail(rezervacije))

izracunajProsteBloke(delovniCas, rezervacije) ==
    OdstejRezervacije(
        [i \in 1..Len(delovniCas) |->
            [start |-> casVMinute(delovniCas[i].Zacetek),
             end |-> casVMinute(delovniCas[i].Konec)]],
        rezervacije)

\* A variant of the filter that keeps only the blocks longer than trajanje.
RECURSIVE IzberiDaljse(_, _)
IzberiDaljse(bloki, trajanje) ==
    IF bloki = <<>> THEN <<>>
    ELSE (IF Head(bloki).end - Head(bloki).start > trajanje
          THEN <<Head(bloki)>> ELSE <<>>)
         \o IzberiDaljse(Tail(bloki), trajanje)

RECURSIVE IzberiDovoljDolge(_, _)
IzberiDovoljDolge(bloki, trajanje) ==
    IF bloki = <<>> THEN <<>>
    ELSE (IF Head(bloki).end - Head(bloki).start >= trajanje
          THEN <<Head(bloki)>> ELSE <<>>)
         \o IzberiDovoljDolge(Tail(bloki), trajanje)

razpolozljiviBloki(bloki, trajanje) ==
    LET dolgi == IzberiDovoljDolge(bloki, trajanje) IN
    [i \in 1..Len(dolgi) |->
        [od |-> minuteVCas(dolgi[i].start), do |-> minuteVCas(dolgi[i].end - trajanje)]]

\* utils.mozniZacetki, which routes/termini.js calls: the candidate start
\* enumeration (per surviving block its earliest and latest start).
mozniZacetki(bloki, trajanje) == razpolozljiviBloki(bloki, trajanje)

\* ------------------------------------------- POST /termini/razpolozljivost
\* The orders in which the store may return the rows of a set.
Zaporedja(S) ==
    {q \in [1..Cardinality(S) -> S] : \A i, j \in 1..Cardinality(S) : i # j => q[i] # q[j]}

\* SELECT Zacetek, Konec FROM delovnik WHERE Frizerji_id = ? AND Dan = ?
DelovnikNaDan(f, dan) == {d \in delovnik : d.Frizerji_id = f /\ d.Dan = dan}

\* The rows of termini_storitve JOIN storitve of one appointment.
VrsticeTermina(id) ==
    {<<ts, s>> \in termini_storitve \X storitve :
        ts.Termini_id = id /\ ts.Storitve_id = s.ID}

\* SUM(s.Trajanje) over the joined rows of one appointment.
RECURSIVE SumVrstic(_)
SumVrstic(V) ==
    IF V = {} THEN 0
    ELSE LET x == CHOOSE y \in V : TRUE IN x[2].Trajanje + SumVrstic(V \ {x})

TrajanjeTermina(id) == SumVrstic(VrsticeTermina(id))

\* SELECT TIME(t.Cas_termina) AS zacetek, ADDTIME(TIME(t.Cas_termina),
\*   SEC_TO_TIME(SUM(s.Trajanje) * 60)) AS konec FROM termini t JOIN ... WHERE
\*   t.Frizerji_id = ? AND DATE(t.Cas_termina) = ? AND t.Status = 'Rezervirano'
\*   GROUP BY t.ID
Rezervacije(f, dan) ==
    {[ID |-> t.ID,
      zacetek |-> TimeStr(t.Cas_termina % MinutNaDan),
      konec |-> TimeStr((t.Cas_termina % MinutNaDan) + TrajanjeTermina(t.ID))] :
        t \in {x \in termini :
                /\ x.Frizerji_id = f
                /\ x.Cas_termina \div MinutNaDan = dan
                /\ x.Status = "Rezervirano"
                /\ VrsticeTermina(x.ID) # {}}}

RazpArrives(r, v) ==
    /\ zahteve[r].faza = "prosta"
    /\ v.vrsta = "razpolozljivost"
    /\ Sprejmi(r, v)
    /\ UNCHANGED <<shramba, naslednjiID, zdaj, napake>>

\* !frizer_ID || !dan || !Array.isArray(storitve) || storitve.length === 0
RazpFrizer(r) ==
    LET z == zahteve[r] IN
    /\ z.vrsta = "razpolozljivost" /\ z.faza = "zacetek"
    /\ IF z.frizer_ID = 0 \/ z.dan = 0 \/ Len(z.storitve) = 0
       THEN Odgovori(r, z, Odgovor(400, "Manjkajoci podatki."))
       ELSE IF FrizerPoID(z.frizer_ID) = {}
       THEN Odgovori(r, z, Odgovor(404, "Izbrani frizer ne obstaja."))
       ELSE Naprej(r, z, "specializacija")
    /\ UNCHANGED <<shramba, naslednjiID, zdaj, napake>>

RazpSpecializacija(r) ==
    LET z == zahteve[r] IN
    /\ z.vrsta = "razpolozljivost" /\ z.faza = "specializacija"
    /\ IF NeIzvajaVseh(z.frizer_ID, z.storitve)
       THEN Odgovori(r, z, Odgovor(400, "Frizer ne izvaja vseh izbranih storitev."))
       ELSE Naprej(r, z, "trajanje")
    /\ UNCHANGED <<shramba, naslednjiID, zdaj, napake>>

RazpTrajanje(r) ==
    LET z == zahteve[r]
        trajanje == SumTrajanje(StoritvePoID(z.storitve)) IN
    /\ z.vrsta = "razpolozljivost" /\ z.faza = "trajanje"
    /\ IF trajanje = 0
       THEN Odgovori(r, z, Odgovor(400, "Neveljavne storitve."))
       ELSE Naprej(r, [z EXCEPT !.trajanje = trajanje], "delovnik")
    /\ UNCHANGED <<shramba, naslednjiID, zdaj, napake>>

\* A variant of the step that answers a day without work intervals with the
\* duration and the empty list only.
RazpDelovnikBrezRazloga(r) ==
    LET z == zahteve[r] IN
    /\ z.vrsta = "razpolozljivost" /\ z.faza = "delovnik"
    /\ IF DelovnikNaDan(z.frizer_ID, z.dan) = {}
       THEN Odgovori(r, z, [Odgovor(200, "") EXCEPT !.trajanje = z.trajanje])
       ELSE \E vrstice \in Zaporedja(DelovnikNaDan(z.frizer_ID, z.dan)) :
                Naprej(r, [z EXCEPT !.delovnik =
                              [i \in 1..Len(vrstice) |->
                                  [Zacetek |-> TimeStr(vrstice[i].Zacetek),
                                   Konec |-> TimeStr(vrstice[i].Konec)]]],
                       "rezervacije")
    /\ UNCHANGED <<shramba, naslednjiID, zdaj, napake>>

\* The work intervals come back in some order; the handler keeps them for
\* the computation that follows the next query.
RazpDelovnik(r) ==
    LET z == zahteve[r] IN
    /\ z.vrsta = "razpolozljivost" /\ z.faza = "delovnik"
    /\ IF DelovnikNaDan(z.frizer_ID, z.dan) = {}
       THEN Odgovori(r, z, [Odgovor(200, "") EXCEPT !.trajanje = z.trajanje,
                                                   !.razlog = "Frizer ne dela ta dan."])
       ELSE \E vrstice \in Zaporedja(DelovnikNaDan(z.frizer_ID, z.dan)) :
                Naprej(r, [z EXCEPT !.delovnik =
                              [i \in 1..Len(vrstice) |->
                                  [Zacetek |-> TimeStr(vrstice[i].Zacetek),
                                   Konec |-> TimeStr(vrstice[i].Konec)]]],
                       "rezervacije")
    /\ UNCHANGED <<shramba, naslednjiID, zdaj, napake>>

RazpRezervacije(r) ==
    LET z == zahteve[r] IN
    /\ z.vrsta = "razpolozljivost" /\ z.faza = "rezervacije"
    /\ \E rezervacije \in Zaporedja(Rezervacije(z.frizer_ID, z.dan)) :
          LET prostiBloki == izracunajProsteBloke(z.delovnik, rezervacije)
              moznosti == mozniZacetki(prostiBloki, z.trajanje)
          IN Odgovori(r, [z EXCEPT !.rezervacije = rezervacije,
                                   !.prostiBloki = prostiBloki],
                      [Odgovor(200, "") EXCEPT !.trajanje = z.trajanje,
                                               !.moznosti = moznosti])
    /\ UNCHANGED <<shramba, naslednjiID, zdaj, napake>>

\* --------------------------------------------- PATCH /termini/preklic/:id
PreklicArrives(r, v) ==
    /\ zahteve[r].faza = "prosta"
    /\ v.vrsta = "preklic"
    /\ Sprejmi(r, v)
    /\ UNCHANGED <<shramba, naslednjiID, zdaj, napake>>

\* A variant of the lookup that selects by the appointment id alone.
PreklicBeriBrezLastnika(r) ==
    LET z == zahteve[r] IN
    /\ z.vrsta = "preklic" /\ z.faza = "zacetek"
    /\ Naprej(r, [z EXCEPT !.termin =
                    {[Status |-> t.Status, Cas_termina |-> t.Cas_termina] :
                        t \in {x \in termini : x.ID = z.termin_ID}}],
              "preveri")
    /\ UNCHANGED <<shramba, naslednjiID, zdaj, napake>>

\* SELECT Status, Cas_termina FROM termini WHERE ID = ? AND Uporabniki_id = ?
PreklicBeri(r) ==
    LET z == zahteve[r] IN
    /\ z.vrsta = "preklic" /\ z.faza = "zacetek"
    /\ Naprej(r, [z EXCEPT !.termin =
                    {[Status |-> t.Status, Cas_termina |-> t.Cas_termina] :
                        t \in {x \in termini : x.ID = z.termin_ID
                                               /\ x.Uporabniki_id = z.uporabnik_ID}}],
              "preveri")
    /\ UNCHANGED <<shramba, naslednjiID, zdaj, napake>>

UR24 == 24

\* A variant of the comparison that also refuses a start exactly 24 hours away.
PrepoznoZaPreklicStrogo(Cas_termina, cas) == (Cas_termina - cas) <= UR24 * 60

\* (terminStart - zdaj) / (1000 * 60 * 60) < 24, in minutes on both sides.
PrepoznoZaPreklic(Cas_termina, cas) == (Cas_termina - cas) < UR24 * 60

\* A variant of the continuation without the check of the status read.
PreklicPreveriBrezStatusa(r) ==
    LET z == zahteve[r] IN
    /\ z.vrsta = "preklic" /\ z.faza = "preveri"
    /\ IF z.termin = {}
       THEN Odgovori(r, z, Odgovor(404, "Termin ne obstaja."))
       ELSE LET termin == CHOOSE t \in z.termin : TRUE IN
            IF PrepoznoZaPreklic(termin.Cas_termina, zdaj)
            THEN Odgovori(r, [z EXCEPT !.zdaj = zdaj],
                          Odgovor(409, "Preklic je mozen najmanj 24 ur pred zacetkom termina."))
            ELSE Naprej(r, [z EXCEPT !.zdaj = zdaj], "posodobi")
    /\ UNCHANGED <<shramba, naslednjiID, zdaj, napake>>

\* The handler's continuation after the SELECT: the three checks, the clock
\* read by new Date(), and the UPDATE it then sends.
PreklicPreveri(r) ==
    LET z == zahteve[r] IN
    /\ z.vrsta = "preklic" /\ z.faza = "preveri"
    /\ IF z.termin = {}
       THEN Odgovori(r, z, Odgovor(404, "Termin ne obstaja."))
       ELSE LET termin == CHOOSE t \in z.termin : TRUE IN
            IF termin.Status # "Rezervirano"
            THEN Odgovori(r, z, Odgovor(409, "Tega termina ni mogoce preklicati."))
            ELSE IF PrepoznoZaPreklic(termin.Cas_termina, zdaj)
            THEN Odgovori(r, [z EXCEPT !.zdaj = zdaj],
                          Odgovor(409, "Preklic je mozen najmanj 24 ur pred zacetkom termina."))
            ELSE Naprej(r, [z EXCEPT !.zdaj = zdaj], "posodobi")
    /\ UNCHANGED <<shramba, naslednjiID, zdaj, napake>>

\* A variant of the update that removes the row.
PreklicPosodobiZBrisanjem(r) ==
    LET z == zahteve[r] IN
    /\ z.vrsta = "preklic" /\ z.faza = "posodobi"
    /\ termini' = {t \in termini : t.ID # z.termin_ID}
    /\ Odgovori(r, z, Odgovor(200, "Termin je bil uspesno preklican."))
    /\ UNCHANGED <<frizerji, specializacija, delovnik, storitve, termini_storitve,
                   naslednjiID, zdaj, napake>>

\* UPDATE termini SET Status = 'Preklicano' WHERE ID = ?
PreklicPosodobi(r) ==
    LET z == zahteve[r] IN
    /\ z.vrsta = "preklic" /\ z.faza = "posodobi"
    /\ termini' = {IF t.ID = z.termin_ID THEN [t EXCEPT !.Status = "Preklicano"] ELSE t :
                      t \in termini}
    /\ Odgovori(r, z, Odgovor(200, "Termin je bil uspesno preklican."))
    /\ UNCHANGED <<frizerji, specializacija, delovnik, storitve, termini_storitve,
                   naslednjiID, zdaj, napake>>

\* ------------------------------------------------- POST /frizerji/signup
SignupArrives(r, v) ==
    /\ zahteve[r].faza = "prosta"
    /\ v.vrsta = "signup"
    /\ Cardinality(frizerji)
         + Cardinality({q \in Reze : zahteve[q].vrsta = "signup" /\ VTeku(q)}) < MaxFrizer
    /\ Sprejmi(r, v)
    /\ UNCHANGED <<shramba, naslednjiID, zdaj, napake>>

\* utils.frizerObstaja: SELECT Uporabnisko_ime FROM frizerji WHERE Uporabnisko_ime = ?
frizerObstaja(Uporabnisko_ime_friz) ==
    IF Uporabnisko_ime_friz = "" THEN FALSE
    ELSE {x \in frizerji : x.Uporabnisko_ime = Uporabnisko_ime_friz} # {}

\* The checks of the body, then await utils.frizerObstaja(Uporabnisko_ime).
SignupObstaja(r) ==
    LET z == zahteve[r] IN
    /\ z.vrsta = "signup" /\ z.faza = "zacetek"
    /\ IF z.Uporabnisko_ime = "" \/ Len(z.Specializacije) = 0
       THEN Odgovori(r, z, Odgovor(400, "Manjkajoci podatki."))
       ELSE IF frizerObstaja(z.Uporabnisko_ime)
       THEN Odgovori(r, z, Odgovor(409, "Uporabnisko ime ze obstaja."))
       ELSE Naprej(r, z, "vstavi")
    /\ UNCHANGED <<shramba, naslednjiID, zdaj, napake>>

\* The next frizerji.ID (auto-increment; no row is ever deleted).
NaslednjiFrizerID == Cardinality(frizerji) + 1

\* The transaction: INSERT INTO frizerji, then for (const naziv of
\* Specializacije) INSERT INTO specializacija (Frizerji_id, Naziv), commit.
SignupVstavi(r) ==
    LET z == zahteve[r]
        frizerId == NaslednjiFrizerID IN
    /\ z.vrsta = "signup" /\ z.faza = "vstavi"
    /\ frizerji' = frizerji \cup {[ID |-> frizerId, Uporabnisko_ime |-> z.Uporabnisko_ime]}
    /\ specializacija' = specializacija \cup
          {[Frizerji_id |-> frizerId, Naziv |-> z.Specializacije[i], Poz |-> i] :
              i \in 1..Len(z.Specializacije)}
    /\ Odgovori(r, z, Odgovor(201, "Frizer s specializacijami uspesno dodan."))
    /\ UNCHANGED <<delovnik, storitve, termini, termini_storitve, naslednjiID, zdaj,
                   napake>>

\* ------------------------------------------------------------ environment
\* Time passes: 30 minutes.
Tik ==
    /\ zdaj < 600 + 30 * MaxTik
    /\ zdaj' = zdaj + 30
    /\ UNCHANGED <<shramba, naslednjiID, zahteve, napake>>

\* The response has been delivered: the slot serves the next request.
Sprosti(r) ==
    /\ zahteve[r].faza = "konec"
    /\ zahteve' = [zahteve EXCEPT ![r] = Prosta]
    /\ UNCHANGED <<shramba, naslednjiID, zdaj, napake>>

\* ------------------------------------------------ PUT /storitve/:naziv
\* The path parameter is <<id, slug>> when it has the form id-slug and <<>>
\* when it has not; a body field is <<x>> when it is given and <<>> when it
\* is undefined.
StoritevArrives(r, v) ==
    /\ zahteve[r].faza = "prosta"
    /\ v.vrsta = "storitev"
    /\ Sprejmi(r, v)
    /\ UNCHANGED <<shramba, naslednjiID, zdaj, napake>>

\* utils.resolveStoritev: SELECT * FROM storitve WHERE ID = ?
resolveStoritev(r) ==
    LET z == zahteve[r] IN
    /\ z.vrsta = "storitev" /\ z.faza = "zacetek"
    /\ IF z.naziv = <<>>
       THEN Odgovori(r, z, Odgovor(400, "Neveljaven format naziva storitve."))
       ELSE LET rows == {s \in storitve : s.ID = z.naziv[1]} IN
            IF rows = {}
            THEN Odgovori(r, z, Odgovor(404, "Storitev ne obstaja."))
            ELSE Naprej(r, [z EXCEPT !.storitev = rows], "posodobi")
    /\ UNCHANGED <<shramba, naslednjiID, zdaj, napake>>

\* JavaScript's a ?? b.
Coalesce(a, b) == IF a = <<>> THEN b ELSE a[1]

\* UPDATE storitve SET Opis = ?, Trajanje = ?, Cena = ? WHERE ID = ?
StoritevPosodobi(r) ==
    LET z == zahteve[r]
        stara == CHOOSE s \in z.storitev : TRUE IN
    /\ z.vrsta = "storitev" /\ z.faza = "posodobi"
    /\ storitve' = {IF s.ID = stara.ID
                    THEN [s EXCEPT !.Trajanje = Coalesce(z.Trajanje, stara.Trajanje),
                                   !.Cena = Coalesce(z.Cena, stara.Cena)]
                    ELSE s : s \in storitve}
    /\ Odgovori(r, z, Odgovor(200, "Storitev uspesno posodobljena."))
    /\ UNCHANGED <<frizerji, specializacija, delovnik, termini, termini_storitve,
                   naslednjiID, zdaj, napake>>

\* ------------------------------------------------------------------- Init
\* The store after the salon has been set up: one stylist who performs both
\* services and works 09:00-10:00 and 10:30-12:00 on day 1; no appointment.
\* The clock stands at 10:00 of day 0.
Init ==
    /\ frizerji = {[ID |-> 1, Uporabnisko_ime |-> "miha"]}
    /\ specializacija = {[Frizerji_id |-> 1, Naziv |-> "Strizenje", Poz |-> 1],
                         [Frizerji_id |-> 1, Naziv |-> "Barvanje", Poz |-> 2]}
    /\ delovnik = {[Frizerji_id |-> 1, Dan |-> 1, Zacetek |-> 540, Konec |-> 600],
                   [Frizerji_id |-> 1, Dan |-> 1, Zacetek |-> 630, Konec |-> 720]}
    /\ storitve = {[ID |-> 1, Ime |-> "Strizenje", Cena |-> 15, Trajanje |-> 30],
                   [ID |-> 2, Ime |-> "Barvanje", Cena |-> 40, Trajanje |-> 60]}
    /\ termini = {}
    /\ termini_storitve = {}
    /\ naslednjiID = 1
    /\ zdaj = 600
    /\ zahteve = [r \in Reze |-> Prosta]
    /\ napake = 0

\* ----------------------------------------------------------------- inputs
Ure == {<<10, 0>>, <<10, 30>>, <<11, 0>>}

Seznami == {<<1>>, <<2>>, <<1, 2>>}

\* A request for each handler, of the clients 1 and 2 with the stylist 1.
VhodiRez ==
    {Vhod("rezervacija", u, 1, 1, ura, sez, 0) :
        u \in {1, 2}, ura \in Ure, sez \in Seznami}

VhodiPred ==
    {Vhod("predogled", 1, 1, 1, ura, sez, 0) : ura \in Ure, sez \in Seznami}

VhodiRazp ==
    {Vhod("razpolozljivost", 1, 1, 1, <<>>, sez, 0) : sez \in Seznami}

VhodiPreklic ==
    {Vhod("preklic", u, 0, 0, <<>>, <<>>, id) : u \in {1, 2}, id \in 1..MaxTermini}

\* Requests that miss a field, name a stylist or an appointment that does not
\* exist, or repeat a service id.
VhodiNeveljavni ==
    {Vhod(vrsta, 1, f, 1, <<10, 30>>, sez, 0) :
        vrsta \in {"rezervacija", "predogled", "razpolozljivost"},
        f \in {0, 1, MaxFrizer + 1}, sez \in {<<>>, <<1, 1>>}}
    \cup {Vhod("preklic", 1, 0, 0, <<>>, <<>>, MaxTermini + 1)}

\* The requests of the concurrent runs: one client, starts inside the second
\* work interval.
VhodiSoc ==
    {Vhod("rezervacija", 1, 1, 1, ura, sez, 0) :
        ura \in {<<10, 30>>, <<11, 0>>}, sez \in {<<1>>, <<2>>}}
    \cup {Vhod("preklic", 1, 0, 0, <<>>, <<>>, id) : id \in 1..MaxTermini}

\* Reservations of one service, of both clients, at every start.
VhodiRezEna ==
    {Vhod("rezervacija", u, 1, 1, ura, <<1>>, 0) : u \in {1, 2}, ura \in Ure}

\* Stylist signups: a name that is taken and one that is free; the submitted
\* specialization names, among them a repeated one.
VhodiSignup ==
    {[Vhod("signup", 0, 0, 0, <<>>, <<>>, 0) EXCEPT !.Uporabnisko_ime = ime,
                                                     !.Specializacije = spec] :
        ime \in {"miha", "ana"},
        spec \in {<<>>, <<"Strizenje">>, <<"Strizenje", "Strizenje">>,
                  <<"Strizenje", "Barvanje">>}}

\* Requests with any stylist id, among them the ids signup hands out.
VhodiFrizerji ==
    {Vhod(vrsta, 1, f, 1, <<10, 30>>, sez, 0) :
        vrsta \in {"rezervacija", "predogled", "razpolozljivost"},
        f \in 1..(MaxFrizer + 1), sez \in Seznami \cup {<<1, 1>>}}

Ena == {1}

\* Stores for the availability computation: the work intervals of stylist 1
\* (none, one or two, pairwise non-overlapping, Zacetek < Konec, on the
\* requested day 1 or on day 2) ...
MejeDelovnika == {540, 600, 630, 720}

IntervaliDelovnika ==
    {d \in [Frizerji_id : {1}, Dan : {1}, Zacetek : MejeDelovnika, Konec : MejeDelovnika] :
        d.Zacetek < d.Konec}

MozniDelovniki ==
    {{}} \cup {{[Frizerji_id |-> 1, Dan |-> 2, Zacetek |-> 540, Konec |-> 720]}}
    \cup {{d} : d \in IntervaliDelovnika}
    \cup {{d, e} : <<d, e>> \in
              {x \in IntervaliDelovnika \X IntervaliDelovnika : x[1].Konec <= x[2].Zacetek}}

\* ... and the appointments committed so far: each one started inside a work
\* interval (as the commit checks it), has one service, and is Reserved or
\* Cancelled; appointments may overlap one another.
ZacetkiTerminov == {540, 600, 630, 690}

VrsteTerminov ==
    [ura : ZacetkiTerminov, storitev : {1, 2}, Status : {"Rezervirano", "Preklicano"}]

\* An order of the appointment kinds, to list each store once.
KljucTermina(e) ==
    e.ura * 4 + (e.storitev - 1) * 2 + (IF e.Status = "Rezervirano" THEN 0 ELSE 1)

MozniTermini(W) ==
    {b \in UNION {[1..n -> VrsteTerminov] : n \in 0..MaxTermini} :
        /\ \A i \in DOMAIN b :
              \E d \in W : d.Zacetek <= b[i].ura /\ b[i].ura <= d.Konec
        /\ \A i, j \in DOMAIN b : i < j => KljucTermina(b[i]) <= KljucTermina(b[j])}

\* The store of an availability run.
InitBloki ==
    /\ frizerji = {[ID |-> 1, Uporabnisko_ime |-> "miha"]}
    /\ specializacija = {[Frizerji_id |-> 1, Naziv |-> "Strizenje", Poz |-> 1],
                         [Frizerji_id |-> 1, Naziv |-> "Barvanje", Poz |-> 2]}
    /\ storitve = {[ID |-> 1, Ime |-> "Strizenje", Cena |-> 15, Trajanje |-> 30],
                   [ID |-> 2, Ime |-> "Barvanje", Cena |-> 40, Trajanje |-> 60]}
    /\ \E W \in MozniDelovniki :
          /\ delovnik = W
          /\ \E b \in MozniTermini(W) :
                LET dan == IF \E d \in W : d.Dan = 2 THEN 2 ELSE 1 IN
                /\ termini = {[ID |-> i, Uporabniki_id |-> 1, Frizerji_id |-> 1,
                               Cas_termina |-> dan * MinutNaDan + b[i].ura,
                               Status |-> b[i].Status] : i \in DOMAIN b}
                /\ termini_storitve = {[Termini_id |-> i, Storitve_id |-> b[i].storitev,
                                        Poz |-> 1] : i \in DOMAIN b}
                /\ naslednjiID = Len(b) + 1
    /\ zdaj = 600
    /\ zahteve = [r \in Reze |-> Prosta]
    /\ napake = 0

RezKorak(r) ==
    \/ RezPovezava(r) \/ RezFrizer(r) \/ RezSpecializacija(r) \/ RezDelovnik(r)
    \/ RezTrajanje(r) \/ RezZasedenost(r) \/ RezTransakcija(r) \/ RezVstaviTermin(r)
    \/ RezVstaviStoritve(r) \/ RezCommit(r)

RezIzjema(r) == RezNapaka(r) \/ RezRollback(r) \/ RezRollbackNapaka(r) \/ RezPovezavaNapaka(r)

PredKorak(r) ==
    \/ PredFrizer(r) \/ PredStoritve(r) \/ PredVsota(r) \/ PredSpecializacija(r)
    \/ PredDelovnik(r) \/ PredZasedenost(r) \/ PredPovzetek(r)

RazpKorak(r) ==
    \/ RazpFrizer(r) \/ RazpSpecializacija(r) \/ RazpTrajanje(r) \/ RazpDelovnik(r)
    \/ RazpRezervacije(r)

PreklicKorak(r) == PreklicBeri(r) \/ PreklicPreveri(r) \/ PreklicPosodobi(r)

SignupKorak(r) == SignupObstaja(r) \/ SignupVstavi(r)

StoritevKorak(r) == resolveStoritev(r) \/ StoritevPosodobi(r)

\* The updates of a service a stylist sends: of the service 1 a longer
\* duration, the duration 0, the price 0, the first values again; requests
\* for a path that is not id-slug and for a service that does not exist.
VhodStoritve(naziv, Trajanje, Cena) ==
    [Vhod("storitev", 1, 0, 0, <<>>, <<>>, 0)
        EXCEPT !.naziv = naziv, !.Trajanje = Trajanje, !.Cena = Cena]

VhodiStoritve ==
    {VhodStoritve(<<1, "strizenje">>, <<60>>, <<>>),
     VhodStoritve(<<1, "strizenje">>, <<0>>, <<>>),
     VhodStoritve(<<1, "strizenje">>, <<>>, <<0>>),
     VhodStoritve(<<1, "strizenje">>, <<30>>, <<15>>),
     VhodStoritve(<<>>, <<>>, <<>>),
     VhodStoritve(<<3, "britje">>, <<>>, <<>>)}

\* No request is being served.
Mirno == \A q \in Reze : ~VTeku(q)

\* ----------------------------------------------------------- specifications
\* Booking under concurrency: reservations and cancellations of one client,
\* served two at a time.
Next ==
    \/ \E r \in Reze, v \in VhodiSoc : RezArrives(r, v)
    \/ \E r \in Reze, v \in VhodiSoc : PreklicArrives(r, v)
    \/ \E r \in Reze : RezKorak(r)
    \/ \E r \in Reze : PreklicKorak(r)
    \/ \E r \in Reze : Sprosti(r)

Spec == Init /\ [][Next]_vars

\* Reservations one at a time, of both clients, with store failures.
NextNapake ==
    \/ \E r \in Ena, v \in VhodiRez \cup VhodiNeveljavni : RezArrives(r, v)
    \/ \E r \in Ena : RezKorak(r)
    \/ \E r \in Ena : RezIzjema(r)
    \/ \E r \in Ena : Sprosti(r)

SpecNapake == Init /\ [][NextNapake]_vars

\* Previews (slot 2) and reservations (slot 1), one request at a time; the
\* answer of the last preview stays in its slot while reservations are served.
NextPotrditev ==
    \/ \E v \in VhodiRez \cup VhodiNeveljavni : Mirno /\ RezArrives(1, v)
    \/ \E v \in VhodiPred \cup VhodiNeveljavni : Mirno /\ PredArrives(2, v)
    \/ RezKorak(1)
    \/ PredKorak(2)
    \/ \E r \in Reze : Sprosti(r)

SpecPotrditev == Init /\ [][NextPotrditev]_vars

\* The read-only operations (slot 2) next to reservations (slot 1).
NextBranje ==
    \/ \E v \in VhodiSoc : RezArrives(1, v)
    \/ \E v \in VhodiPred \cup VhodiNeveljavni : PredArrives(2, v)
    \/ \E v \in VhodiRazp \cup VhodiNeveljavni : RazpArrives(2, v)
    \/ RezKorak(1)
    \/ PredKorak(2)
    \/ RazpKorak(2)
    \/ \E r \in Reze : Sprosti(r)

SpecBranje == Init /\ [][NextBranje]_vars

\* Reservations and cancellations one at a time, against the clock.
NextPreklic ==
    \/ \E r \in Ena, v \in VhodiRezEna : RezArrives(r, v)
    \/ \E r \in Ena, v \in VhodiPreklic \cup VhodiNeveljavni : PreklicArrives(r, v)
    \/ \E r \in Ena : RezKorak(r)
    \/ \E r \in Ena : PreklicKorak(r)
    \/ \E r \in Ena : Sprosti(r)
    \/ Tik

SpecPreklic == Init /\ [][NextPreklic]_vars

\* Availability queries, one at a time, over the stores of InitBloki.
NextBloki ==
    \/ \E v \in VhodiRazp : RazpArrives(1, v)
    \/ RazpKorak(1)
    \/ Sprosti(1)

SpecBloki == InitBloki /\ [][NextBloki]_vars

\* Stylist signups (slot 2) next to the requests that check the stylist's
\* specializations (slot 1).
NextSignup ==
    \/ \E v \in VhodiSignup : SignupArrives(2, v)
    \/ \E v \in VhodiFrizerji : RezArrives(1, v)
    \/ \E v \in VhodiFrizerji : PredArrives(1, v)
    \/ \E v \in VhodiFrizerji : RazpArrives(1, v)
    \/ SignupKorak(2)
    \/ RezKorak(1)
    \/ PredKorak(1)
    \/ RazpKorak(1)
    \/ \E r \in Reze : Sprosti(r)

SpecSignup == Init /\ [][NextSignup]_vars

\* Stylist signups served two at a time.
NextPrijave ==
    \/ \E r \in Reze, v \in VhodiSignup : SignupArrives(r, v)
    \/ \E r \in Reze : SignupKorak(r)
    \/ \E r \in Reze : Sprosti(r)

SpecPrijave == Init /\ [][NextPrijave]_vars

\* A client books, cancels and books again, one request at a time, while
\* availability is asked for in slot 2.
NextSprostitev ==
    \/ \E v \in VhodiSoc : Mirno /\ RezArrives(1, v)
    \/ \E v \in VhodiSoc : Mirno /\ RezArrivesZadnja(1, v)
    \/ \E v \in VhodiSoc : Mirno /\ PreklicArrives(1, v)
    \/ \E v \in VhodiRazp : Mirno /\ RazpArrives(2, v)
    \/ RezKorak(1)
    \/ PreklicKorak(1)
    \/ RazpKorak(2)
    \/ \E r \in Reze : Sprosti(r)

SpecSprostitev == Init /\ [][NextSprostitev]_vars

\* The commit request with the body of the preview that slot 2 has answered,
\* sent while the store is as that preview found it.
PotrditevPredogleda(v) ==
    LET p == zahteve[2] IN
    /\ p.vrsta = "predogled" /\ p.faza = "konec"
    /\ v = Vhod("rezervacija", p.uporabnik_ID, p.frizer_ID, p.dan, p.ura, p.storitve, 0)
    /\ p.videni = {t.ID : t \in termini}

\* A stylist edits the service 1 between the bookings; every booking is a
\* preview followed by the commit of the same body on the same store.
NextStoritve ==
    \/ \E v \in VhodiStoritve :
          zahteve[1].faza = "prosta" /\ zahteve[2].faza = "prosta" /\ StoritevArrives(1, v)
    \/ \E v \in VhodiPred \cup VhodiNeveljavni :
          zahteve[1].faza = "prosta" /\ PredArrives(2, v)
    \/ \E v \in VhodiRez \cup VhodiNeveljavni :
          Mirno /\ PotrditevPredogleda(v) /\ RezArrives(1, v)
    \/ StoritevKorak(1)
    \/ RezKorak(1)
    \/ PredKorak(2)
    \/ \E r \in Reze : Sprosti(r)

SpecStoritve == Init /\ [][NextStoritve]_vars

\* ------------------------------------------------------------ the claims
\* Two half-open intervals [a1, a2) and [b1, b2) overlap.
Prekrivanje(a1, a2, b1, b2) == a1 < b2 /\ b1 < a2

\* The end of an appointment: its start plus the total duration of its own
\* services.
KonecTermina(t) == t.Cas_termina + TrajanjeTermina(t.ID)

\* A reservation request has been answered.
Odgovorjena(r, vrsta) == zahteve[r].vrsta = vrsta /\ zahteve[r].faza = "konec"

\* C1: in every reachable state no two Reserved appointments of one stylist
\* have overlapping intervals [start, start + own total duration).
C1_BrezPrekrivanja ==
    \A t1, t2 \in termini :
        (/\ t1.ID # t2.ID
         /\ t1.Frizerji_id = t2.Frizerji_id
         /\ t1.Status = "Rezervirano" /\ t2.Status = "Rezervirano")
        => ~Prekrivanje(t1.Cas_termina, KonecTermina(t1), t2.Cas_termina, KonecTermina(t2))

\* C2: of two reservation requests for the same stylist, day, start and
\* services that are served at the same time and found no appointment when
\* they arrived, exactly one is answered 201 and the other 409.
C2_NatankoEnaUspe ==
    \A r1, r2 \in Reze :
        (/\ r1 # r2
         /\ Odgovorjena(r1, "rezervacija") /\ Odgovorjena(r2, "rezervacija")
         /\ zahteve[r1].socasna /\ zahteve[r2].socasna
         /\ zahteve[r1].videni = {} /\ zahteve[r2].videni = {}
         /\ zahteve[r1].frizer_ID = zahteve[r2].frizer_ID
         /\ zahteve[r1].dan = zahteve[r2].dan
         /\ zahteve[r1].ura = zahteve[r2].ura
         /\ zahteve[r1].storitve = zahteve[r2].storitve)
        => {zahteve[r1].odgovor.status, zahteve[r2].odgovor.status} = {201, 409}

\* The request of slot r has passed the overlap check of its handler.
MimoZasedenosti(r) ==
    LET z == zahteve[r] IN
    \/ z.vrsta = "rezervacija"
         /\ (z.faza \in {"transakcija", "vstavi_termin", "vstavi_storitve", "commit"}
             \/ (z.faza = "konec" /\ z.odgovor.status = 201))
    \/ z.vrsta = "predogled"
         /\ (z.faza = "konec_termina" \/ (z.faza = "konec" /\ z.odgovor.status = 200))

\* The Reserved appointments the request of slot r found in the store whose
\* interval overlaps the requested one.
PrekritiTermini(r) ==
    LET z == zahteve[r]
        zacetek == z.dan * MinutNaDan + z.ura[1] * 60 + z.ura[2]
    IN {t \in termini :
            /\ t.ID \in z.videni
            /\ t.Frizerji_id = z.frizer_ID
            /\ t.Status = "Rezervirano"
            /\ Prekrivanje(t.Cas_termina, KonecTermina(t), zacetek, zacetek + z.trajanje)}

\* C3: preview and commit reject every request whose interval overlaps the
\* interval of a Reserved appointment of the stylist: no request passes the
\* overlap check while such an appointment is in the store.
C3_PrekrivanjeZavrnjeno ==
    \A r \in Reze : MimoZasedenosti(r) => PrekritiTermini(r) = {}

\* The service lines stored for the appointment id.
VrsticeZaTermin(id) == {l \in termini_storitve : l.Termini_id = id}

\* What the other requests can see of the appointments: an appointment is in
\* the store exactly when its service lines are, and an appointment a
\* finished commit reported has one line per element of the requested list.
VidnoVseAliNic ==
    /\ \A t \in termini : VrsticeZaTermin(t.ID) # {}
    /\ \A l \in termini_storitve : \E t \in termini : t.ID = l.Termini_id
    /\ \A r \in Reze :
          LET z == zahteve[r] IN
          (Odgovorjena(r, "rezervacija") /\ z.odgovor.status = 201)
          => /\ \E t \in termini : t.ID = z.insertId
             /\ Cardinality(VrsticeZaTermin(z.insertId)) = Len(z.storitve)
             /\ \A i \in 1..Len(z.storitve) :
                   \E l \in VrsticeZaTermin(z.insertId) :
                       l.Storitve_id = z.storitve[i] /\ l.Poz = i

\* A commit whose appointment insert was followed by a store failure has
\* ended: nothing of it is in the store and the response is the server error.
PoNapakiNicInNapaka ==
    \A r \in Reze :
        LET z == zahteve[r] IN
        (Odgovorjena(r, "rezervacija") /\ z.po_vstavitvi /\ z.odgovor.status # 201)
        => /\ \A t \in termini : t.ID # z.insertId
           /\ VrsticeZaTermin(z.insertId) = {}
           /\ z.odgovor.status = 500

\* C4: the commit inserts the appointment and its service lines as one
\* all-or-nothing unit (in every state an appointment exists exactly when all
\* of its lines do), and a store failure after the appointment insert leaves
\* neither the appointment nor a line and gives the caller a server error.
C4_VseAliNic == VidnoVseAliNic /\ PoNapakiNicInNapaka

\* C5: the step in which a commit answers with success adds exactly one
\* appointment, Reserved, owned by the authenticated client, for the requested
\* stylist and start, with exactly one service line per requested id, answers
\* with that appointment's id, and adds, removes or changes nothing else.
C5_UspesnaPotrditev ==
    [][\A r \in Reze :
          (/\ zahteve[r].vrsta = "rezervacija"
           /\ zahteve[r].faza # "konec"
           /\ zahteve'[r].faza = "konec"
           /\ zahteve'[r].odgovor.status = 201)
          => LET z == zahteve'[r]
                 id == z.odgovor.termin_ID
                 nov == [ID |-> id, Uporabniki_id |-> z.uporabnik_ID,
                         Frizerji_id |-> z.frizer_ID,
                         Cas_termina |-> z.dan * MinutNaDan + z.ura[1] * 60 + z.ura[2],
                         Status |-> "Rezervirano"]
                 nove == termini_storitve' \ termini_storitve
             IN /\ \A t \in termini : t.ID # id
                /\ termini' = termini \cup {nov}
                /\ termini_storitve \subseteq termini_storitve'
                /\ \A l \in termini_storitve : l.Termini_id # id
                /\ \A l \in nove : l.Termini_id = id
                /\ Cardinality(nove) = Len(z.storitve)
                /\ \A i \in 1..Len(z.storitve) :
                      \E l \in nove : l.Storitve_id = z.storitve[i] /\ l.Poz = i
                /\ UNCHANGED <<frizerji, specializacija, delovnik, storitve>>
      ]_vars

\* The second appointment of the store has just been committed by client 2.
C5_Primer ==
    \E r \in Reze :
        /\ Odgovorjena(r, "rezervacija")
        /\ zahteve[r].odgovor.status = 201
        /\ zahteve[r].odgovor.termin_ID = 2
        /\ zahteve[r].uporabnik_ID = 2
        /\ Cardinality(termini) = 2

\* C6: preview and availability never write to the store: no step of a
\* preview or of an availability query changes the appointments or the
\* service lines, whatever its inputs and its outcome; while no commit has
\* inserted, no appointment exists.
C6_BranjeNePise ==
    /\ [](naslednjiID = 1 => (termini = {} /\ termini_storitve = {}))
    /\ [][\A r \in Reze :
             (/\ zahteve'[r] # zahteve[r]
              /\ \/ zahteve[r].vrsta \in {"predogled", "razpolozljivost"}
                 \/ zahteve'[r].vrsta \in {"predogled", "razpolozljivost"})
             => UNCHANGED <<termini, termini_storitve, naslednjiID>>
       ]_vars

\* A preview has answered with its summary while the store is still empty.
C6_Primer ==
    /\ Odgovorjena(2, "predogled")
    /\ zahteve[2].odgovor.status = 200
    /\ naslednjiID = 1
    /\ termini = {}

\* C7: a commit decides from the store it reads itself, not from the
\* preview: when the preview of a slot has succeeded and a Reserved
\* appointment of that stylist overlapping the slot is committed after it and
\* before the client's own commit of the same slot starts, the commit is
\* rejected with conflict.
C7_PotrditevPreveriZnova ==
    \A t \in termini :
        LET p == zahteve[2]
            c == zahteve[1]
            zacetek == c.dan * MinutNaDan + c.ura[1] * 60 + c.ura[2]
        IN (/\ Odgovorjena(2, "predogled") /\ p.odgovor.status = 200
            /\ Odgovorjena(1, "rezervacija")
            /\ c.uporabnik_ID = p.uporabnik_ID /\ c.frizer_ID = p.frizer_ID
            /\ c.dan = p.dan /\ c.ura = p.ura /\ c.storitve = p.storitve
            /\ t.ID \in c.videni \ p.videni
            /\ t.Frizerji_id = c.frizer_ID
            /\ t.Status = "Rezervirano"
            /\ Prekrivanje(t.Cas_termina, KonecTermina(t),
                           zacetek, zacetek + p.odgovor.trajanje))
           => c.odgovor.status = 409

\* The stylist f has a specialization row for the service id.
Usposobljen(f, id) ==
    \E s \in storitve, sp \in specializacija :
        s.ID = id /\ sp.Frizerji_id = f /\ sp.Naziv = s.Ime

\* The request of slot r has passed the capability step of its handler.
MimoSpecializacije(r) ==
    LET z == zahteve[r] IN
    \/ z.vrsta = "rezervacija"
         /\ z.faza \in {"delovnik", "trajanje", "zasedenost", "transakcija",
                        "vstavi_termin", "vstavi_storitve", "commit"}
    \/ z.vrsta = "predogled" /\ z.faza \in {"delovnik", "zasedenost", "konec_termina"}
    \/ z.vrsta = "razpolozljivost" /\ z.faza \in {"trajanje", "delovnik", "rezervacije"}

\* C8: availability, preview and commit go past the capability step only if
\* the stylist is qualified for every requested service id, whatever
\* specialization rows signup has stored for the stylist.
C8_VseStoritve ==
    \A r \in Reze :
        MimoSpecializacije(r)
        => \A i \in 1..Len(zahteve[r].storitve) :
              Usposobljen(zahteve[r].frizer_ID, zahteve[r].storitve[i])

\* The request of slot r has passed the work-interval step of its handler.
MimoDelovnika(r) ==
    LET z == zahteve[r] IN
    \/ z.vrsta = "rezervacija"
         /\ z.faza \in {"trajanje", "zasedenost", "transakcija", "vstavi_termin",
                        "vstavi_storitve", "commit"}
    \/ z.vrsta = "predogled" /\ z.faza \in {"zasedenost", "konec_termina"}

\* C9: preview and commit accept a start time only if it lies in the
\* half-open range [Zacetek, Konec) of a work interval of the stylist on that
\* day; a start equal to an interval's end is rejected.
C9_ZacetekVDelovniku ==
    \A r \in Reze :
        MimoDelovnika(r)
        => LET z == zahteve[r]
               t == z.ura[1] * 60 + z.ura[2]
           IN \E d \in delovnik :
                 /\ d.Frizerji_id = z.frizer_ID /\ d.Dan = z.dan
                 /\ d.Zacetek <= t /\ t < d.Konec

Konca(r, vrsta) ==
    /\ zahteve[r].vrsta = vrsta
    /\ zahteve[r].faza # "konec"
    /\ zahteve'[r].faza = "konec"

\* C11: the cancel of an appointment whose status is not Reserved answers
\* with conflict and changes nothing; a cancel answers with success only for
\* an appointment that is Reserved and that it leaves Cancelled, and a
\* Cancelled appointment stays as it is, so that of the cancels of one
\* appointment served one after another at most one answers with success.
C11_PreklicanNiPreklican ==
    /\ [](\A r \in Reze :
            (Odgovorjena(r, "preklic")
             /\ \E x \in zahteve[r].termin : x.Status # "Rezervirano")
            => zahteve[r].odgovor.status = 409)
    /\ [][\A r \in Reze :
             /\ (Konca(r, "preklic")
                 /\ \E x \in zahteve'[r].termin : x.Status # "Rezervirano")
                => UNCHANGED <<termini, termini_storitve>>
             /\ (Konca(r, "preklic") /\ zahteve'[r].odgovor.status = 200)
                => \E t \in termini :
                      /\ t.ID = zahteve[r].termin_ID
                      /\ t.Status = "Rezervirano"
                      /\ [t EXCEPT !.Status = "Preklicano"] \in termini'
             /\ \A t \in termini : t.Status = "Preklicano" => t \in termini'
       ]_vars

\* The cancel of an appointment that was already Cancelled has been refused.
C11_Primer ==
    \E r \in Reze, t \in termini :
        /\ Odgovorjena(r, "preklic")
        /\ t.ID = zahteve[r].termin_ID
        /\ t.Status = "Preklicano"
        /\ \E x \in zahteve[r].termin : x.Status = "Preklicano"
        /\ zahteve[r].odgovor.status = 409

\* The appointments with the id the request of slot r names that belong to
\* the client of the request.
LastniTermini(r) ==
    {t \in termini : t.ID = zahteve[r].termin_ID
                     /\ t.Uporabniki_id = zahteve[r].uporabnik_ID}

\* C12: a cancel by a client who does not own the appointment gets the
\* not-found response, the same one as for an id that does not exist, and
\* leaves the appointment unchanged; the status of an appointment changes
\* only in a step of a cancel request of its owning client.
C12_SamoLastnik ==
    /\ [](\A r \in Reze :
            (Odgovorjena(r, "preklic") /\ LastniTermini(r) = {})
            => zahteve[r].odgovor = [status |-> 404, message |-> "Termin ne obstaja.",
                                     termin_ID |-> 0, trajanje |-> 0, moznosti |-> <<>>,
                                     razlog |-> "", konec_termina |-> 0,
                                     skupna_cena |-> 0])
    /\ [][/\ \A r \in Reze :
                (zahteve[r].vrsta = "preklic" /\ zahteve'[r] # zahteve[r]
                 /\ LastniTermini(r) = {})
                => UNCHANGED <<termini, termini_storitve>>
          /\ \A t \in termini, n \in termini' :
                (n.ID = t.ID /\ n.Status # t.Status)
                => \E r \in Reze :
                      /\ zahteve[r].vrsta = "preklic"
                      /\ zahteve'[r] # zahteve[r]
                      /\ zahteve[r].termin_ID = t.ID
                      /\ zahteve[r].uporabnik_ID = t.Uporabniki_id
       ]_vars

\* A client has asked to cancel another client's Reserved appointment, which
\* starts 24 hours or more later, and got the not-found response.
C12_Primer ==
    \E r \in Reze, t \in termini :
        /\ Odgovorjena(r, "preklic")
        /\ t.ID = zahteve[r].termin_ID
        /\ t.Uporabniki_id # zahteve[r].uporabnik_ID
        /\ t.Status = "Rezervirano"
        /\ t.Cas_termina - zdaj >= 24 * 60
        /\ zahteve[r].odgovor.status = 404

\* C13: every appointment's status is Reserved or Cancelled; no step deletes
\* an appointment or changes its client, stylist, start or service lines; the
\* only change of a status is from Reserved to Cancelled, so a Cancelled
\* appointment stays Cancelled.
C13_ZivljenjskiKrog ==
    /\ [](\A t \in termini : t.Status \in {"Rezervirano", "Preklicano"})
    /\ [][\A t \in termini :
             /\ Cardinality({n \in termini' : n.ID = t.ID}) = 1
             /\ \E n \in termini' :
                   /\ n.ID = t.ID
                   /\ n.Uporabniki_id = t.Uporabniki_id
                   /\ n.Frizerji_id = t.Frizerji_id
                   /\ n.Cas_termina = t.Cas_termina
                   /\ \/ n.Status = t.Status
                      \/ (t.Status = "Rezervirano" /\ n.Status = "Preklicano")
             /\ {l \in termini_storitve' : l.Termini_id = t.ID}
                   = {l \in termini_storitve : l.Termini_id = t.ID}
       ]_vars

\* A Cancelled appointment next to a Reserved one committed after it.
C13_Primer ==
    \E t, n \in termini :
        /\ t.Status = "Preklicano"
        /\ n.Status = "Rezervirano"
        /\ n.ID > t.ID

\* An availability query of slot r has computed the free blocks.
BlokiIzracunani(r) ==
    /\ Odgovorjena(r, "razpolozljivost")
    /\ zahteve[r].odgovor.status = 200
    /\ zahteve[r].delovnik # <<>>

\* Start times of day the properties of the enumeration are tested at.
PreizkusneMinute == {m \in 480..780 : m % 10 = 0}

\* The interval [s, s + D) of the requested day lies inside one work interval
\* of the stylist and overlaps no Reserved appointment of the stylist.
ProstZacetek(f, dan, s, D) ==
    /\ \E d \in delovnik :
          /\ d.Frizerji_id = f /\ d.Dan = dan
          /\ d.Zacetek <= s /\ s + D <= d.Konec
    /\ \A t \in termini :
          (t.Frizerji_id = f /\ t.Status = "Rezervirano")
          => ~Prekrivanje(t.Cas_termina, KonecTermina(t),
                          dan * MinutNaDan + s, dan * MinutNaDan + s + D)

\* C14: for the total duration D, razpolozljiviBloki keeps exactly the free
\* blocks at least D long, in their order, and reports for each the pair
\* (block.start, block.end - D); so a start s lies within a reported pair
\* exactly when [s, s + D) fits inside one work interval and overlaps no
\* Reserved appointment.
C14_MozniZacetki ==
    \A r \in Reze :
        BlokiIzracunani(r)
        => LET z == zahteve[r]
               D == z.trajanje
               bloki == z.prostiBloki
               pari == razpolozljiviBloki(bloki, D)
               dolgi == {i \in 1..Len(bloki) : bloki[i].end - bloki[i].start >= D}
           IN /\ Len(pari) = Cardinality(dolgi)
              /\ \A i \in dolgi :
                    LET k == Cardinality({j \in dolgi : j <= i}) IN
                    /\ pari[k].od = <<bloki[i].start \div 60, bloki[i].start % 60>>
                    /\ pari[k].do = <<(bloki[i].end - D) \div 60, (bloki[i].end - D) % 60>>
              /\ \A s \in PreizkusneMinute :
                    (\E k \in 1..Len(pari) :
                        /\ pari[k].od[1] * 60 + pari[k].od[2] <= s
                        /\ s <= pari[k].do[1] * 60 + pari[k].do[2])
                    <=> ProstZacetek(z.frizer_ID, z.dan, s, D)

\* Work interval 09:00-12:00, one Reserved appointment 10:00-10:30, duration
\* 30: the pairs are 09:00-09:30 and 10:30-11:30.
C14_Primer ==
    \E r \in Reze :
        /\ BlokiIzracunani(r)
        /\ delovnik = {[Frizerji_id |-> 1, Dan |-> 1, Zacetek |-> 540, Konec |-> 720]}
        /\ termini = {[ID |-> 1, Uporabniki_id |-> 1, Frizerji_id |-> 1,
                       Cas_termina |-> MinutNaDan + 600, Status |-> "Rezervirano"]}
        /\ termini_storitve = {[Termini_id |-> 1, Storitve_id |-> 1, Poz |-> 1]}
        /\ zahteve[r].trajanje = 30
        /\ razpolozljiviBloki(zahteve[r].prostiBloki, 30)
              = <<[od |-> <<9, 0>>, do |-> <<9, 30>>], [od |-> <<10, 30>>, do |-> <<11, 30>>]>>

\* The times of day from 08:00 to 14:00 in steps of 10 minutes: every bound of
\* an interval of the availability runs is one of them, so an interval's
\* length is 10 minutes for each of them it holds.
MinuteDneva == {m \in 480..840 : m % 10 = 0}

\* The minutes of the work intervals the handler passed to the computation.
MinuteDelovnika(delovniCas) ==
    {m \in MinuteDneva :
        \E i \in 1..Len(delovniCas) :
            /\ delovniCas[i].Zacetek[1] * 60 + delovniCas[i].Zacetek[2] <= m
            /\ m < delovniCas[i].Konec[1] * 60 + delovniCas[i].Konec[2]}

\* The minutes of the booked intervals the handler passed to the computation.
MinuteRezervacij(rezervacije) ==
    {m \in MinuteDneva :
        \E i \in 1..Len(rezervacije) :
            /\ rezervacije[i].zacetek[1] * 60 + rezervacije[i].zacetek[2] <= m
            /\ m < rezervacije[i].konec[1] * 60 + rezervacije[i].konec[2]}

MinuteBlokov(bloki) ==
    {m \in MinuteDneva : \E i \in 1..Len(bloki) : bloki[i].start <= m /\ m < bloki[i].end}

RECURSIVE DolzinaBlokov(_)
DolzinaBlokov(bloki) ==
    IF bloki = <<>> THEN 0
    ELSE (Head(bloki).end - Head(bloki).start) + DolzinaBlokov(Tail(bloki))

\* C15: the blocks izracunajProsteBloke returns cover exactly the minutes of
\* the work intervals that no booked interval covers: their total length is
\* length(W) - length(union of B within W), each block lies inside a work
\* interval and intersects no booked interval.
C15_ProstiBlokiPokrivajo ==
    \A r \in Reze :
        BlokiIzracunani(r)
        => LET z == zahteve[r]
               bloki == izracunajProsteBloke(z.delovnik, z.rezervacije)
               W == MinuteDelovnika(z.delovnik)
               B == MinuteRezervacij(z.rezervacije)
           IN /\ bloki = z.prostiBloki
              /\ \A i \in 1..Len(bloki) :
                    bloki[i].start \in MinuteDneva /\ bloki[i].end \in MinuteDneva
              /\ MinuteBlokov(bloki) = W \ B
              /\ DolzinaBlokov(bloki) = 10 * (Cardinality(W) - Cardinality(B \cap W))
              /\ \A i \in 1..Len(bloki) :
                    /\ bloki[i].start < bloki[i].end
                    /\ \E j \in 1..Len(z.delovnik) :
                          /\ z.delovnik[j].Zacetek[1] * 60 + z.delovnik[j].Zacetek[2]
                                <= bloki[i].start
                          /\ bloki[i].end
                                <= z.delovnik[j].Konec[1] * 60 + z.delovnik[j].Konec[2]
                    /\ \A j \in 1..Len(z.rezervacije) :
                          ~Prekrivanje(bloki[i].start, bloki[i].end,
                              z.rezervacije[j].zacetek[1] * 60 + z.rezervacije[j].zacetek[2],
                              z.rezervacije[j].konec[1] * 60 + z.rezervacije[j].konec[2])

\* Two booked intervals that overlap each other have been subtracted from one
\* work interval, which is left with a block before and a block after them.
C15_Primer ==
    \E r \in Reze :
        /\ BlokiIzracunani(r)
        /\ Len(zahteve[r].delovnik) = 1
        /\ Len(zahteve[r].rezervacije) = 2
        /\ zahteve[r].rezervacije[1].zacetek # zahteve[r].rezervacije[2].zacetek
        /\ zahteve[r].rezervacije[1].zacetek[1] * 60 + zahteve[r].rezervacije[1].zacetek[2]
              < zahteve[r].rezervacije[2].konec[1] * 60 + zahteve[r].rezervacije[2].konec[2]
        /\ zahteve[r].rezervacije[2].zacetek[1] * 60 + zahteve[r].rezervacije[2].zacetek[2]
              < zahteve[r].rezervacije[1].konec[1] * 60 + zahteve[r].rezervacije[1].konec[2]
        /\ Len(zahteve[r].prostiBloki) = 2

\* C16: the blocks izracunajProsteBloke returns are in ascending order of
\* start and no two of them overlap or touch, for every order in which the
\* store returns the work intervals and the bookings and for every set of
\* pairwise non-overlapping work intervals.
C16_NarascajoceBrezDotika ==
    \A r \in Reze :
        BlokiIzracunani(r)
        => LET bloki == zahteve[r].prostiBloki IN
           \A i, j \in 1..Len(bloki) : i < j => bloki[i].end < bloki[j].start

\* C17: the availability query answers with the reason 'Frizer ne dela ta
\* dan.' and an empty candidate list exactly when the stylist has no work
\* interval on the requested day; when work intervals exist and the bookings
\* leave no block long enough it answers with the total duration and an empty
\* candidate list without the reason.
C17_RazlogBrezDelovnika ==
    \A r \in Reze :
        LET z == zahteve[r]
            brez == \A d \in delovnik : ~(d.Frizerji_id = z.frizer_ID /\ d.Dan = z.dan)
        IN (Odgovorjena(r, "razpolozljivost") /\ z.odgovor.status = 200)
           => /\ z.odgovor.trajanje = z.trajanje /\ z.trajanje > 0
              /\ (z.odgovor.razlog = "Frizer ne dela ta dan.") <=> brez
              /\ brez => z.odgovor.moznosti = <<>>
              /\ ~brez => z.odgovor.razlog = ""
              /\ (~brez /\ \A i \in 1..Len(z.prostiBloki) :
                              z.prostiBloki[i].end - z.prostiBloki[i].start < z.trajanje)
                 => z.odgovor.moznosti = <<>>

\* The stylist works on the requested day, a Reserved appointment has been
\* subtracted and no block is long enough: empty list, no reason.
C17_Primer ==
    \E r \in Reze :
        /\ BlokiIzracunani(r)
        /\ Len(zahteve[r].rezervacije) >= 1
        /\ \A i \in 1..Len(zahteve[r].prostiBloki) :
              zahteve[r].prostiBloki[i].end - zahteve[r].prostiBloki[i].start
                  < zahteve[r].trajanje
        /\ zahteve[r].odgovor.moznosti = <<>>
        /\ zahteve[r].odgovor.razlog = ""

\* The conflict check gives the same verdict for a request with the interval
\* of appointment a against the stored appointment b as for a request with the
\* interval of b against the stored a.
SimetricnaZasedenost ==
    \A a, b \in termini :
        (/\ a.ID # b.ID /\ a.Frizerji_id = b.Frizerji_id
         /\ a.Status = "Rezervirano" /\ b.Status = "Rezervirano")
        => (b \in Zasedeni(a.Frizerji_id, a.Cas_termina, TrajanjeTermina(a.ID))
            <=> a \in Zasedeni(b.Frizerji_id, b.Cas_termina, TrajanjeTermina(b.ID)))

\* The test of the free-block subtraction leaves a work interval whole beside
\* a booking exactly when it leaves the booking whole beside the work interval.
SimetricnoOdstevanje ==
    \A r \in Reze :
        BlokiIzracunani(r)
        => \A i \in 1..Len(zahteve[r].delovnik), j \in 1..Len(zahteve[r].rezervacije) :
              LET d == [start |-> casVMinute(zahteve[r].delovnik[i].Zacetek),
                        end |-> casVMinute(zahteve[r].delovnik[i].Konec)]
                  b == [start |-> casVMinute(zahteve[r].rezervacije[j].zacetek),
                        end |-> casVMinute(zahteve[r].rezervacije[j].konec)]
              IN (OdreziBlok(d, b.start, b.end) = <<d>>)
                    <=> (OdreziBlok(b, d.start, d.end) = <<b>>)

\* C18: the overlap test is symmetric, in the conflict check of a request
\* against a Reserved appointment and in the free-block subtraction.
C18_SimetricnoPrekrivanje == SimetricnaZasedenost /\ SimetricnoOdstevanje

\* The blocks as rows of work intervals: the times as the store renders them.
BlokiKotDelovnik(bloki) ==
    [i \in 1..Len(bloki) |->
        [Zacetek |-> <<bloki[i].start \div 60, bloki[i].start % 60, 0>>,
         Konec |-> <<bloki[i].end \div 60, bloki[i].end % 60, 0>>]]

\* C19: izracunajProsteBloke is idempotent in the booked set: subtracting the
\* same booked intervals again from the blocks obtained by subtracting them
\* yields the same blocks.
C19_Idempotentno ==
    \A r \in Reze :
        BlokiIzracunani(r)
        => LET z == zahteve[r]
               enkrat == izracunajProsteBloke(z.delovnik, z.rezervacije)
           IN /\ enkrat = z.prostiBloki
              /\ izracunajProsteBloke(BlokiKotDelovnik(enkrat), z.rezervacije) = enkrat

\* Two bookings have cut a work interval into pieces, which the second
\* subtraction finds again.
C19_Primer ==
    \E r \in Reze :
        /\ BlokiIzracunani(r)
        /\ Len(zahteve[r].rezervacije) = 2
        /\ Len(zahteve[r].prostiBloki) = 3
        /\ izracunajProsteBloke(BlokiKotDelovnik(zahteve[r].prostiBloki),
                                zahteve[r].rezervacije) = zahteve[r].prostiBloki

\* C20: with no booked interval izracunajProsteBloke returns exactly the work
\* intervals it was given, as minute offsets, in their order.
C20_BrezRezervacij ==
    \A r \in Reze :
        BlokiIzracunani(r)
        => LET z == zahteve[r]
               bloki == izracunajProsteBloke(z.delovnik, <<>>)
           IN /\ Len(bloki) = Len(z.delovnik)
              /\ \A i \in 1..Len(bloki) :
                    /\ bloki[i].start = z.delovnik[i].Zacetek[1] * 60 + z.delovnik[i].Zacetek[2]
                    /\ bloki[i].end = z.delovnik[i].Konec[1] * 60 + z.delovnik[i].Konec[2]
              /\ z.rezervacije = <<>> => z.prostiBloki = bloki

\* The stylist's two work intervals came back with no booking on that day.
C20_Primer ==
    \E r \in Reze :
        /\ BlokiIzracunani(r)
        /\ zahteve[r].rezervacije = <<>>
        /\ Len(zahteve[r].delovnik) = 2
        /\ Len(zahteve[r].prostiBloki) = 2
        /\ zahteve[r].prostiBloki[1].start = 630

\* C21: a commit is refused with 'Izbrani termin ni na voljo.' only when a
\* Reserved appointment of the stylist overlaps the requested interval: a
\* request that passes the other checks and overlaps no Reserved
\* appointment is accepted.
C21_SamoPraviKonflikt ==
    \A r \in Reze :
        LET z == zahteve[r]
            zacetek == z.dan * MinutNaDan + z.ura[1] * 60 + z.ura[2]
        IN (/\ Odgovorjena(r, "rezervacija")
            /\ z.odgovor.status = 409
            /\ z.odgovor.message = "Izbrani termin ni na voljo.")
           => \E t \in termini :
                 /\ t.Frizerji_id = z.frizer_ID
                 /\ t.Status = "Rezervirano"
                 /\ Prekrivanje(t.Cas_termina, KonecTermina(t),
                                zacetek, zacetek + z.trajanje)

\* The pairs razpolozljivost would return for the stylist, the day and the
\* total duration D on the store as it is.
PonujeniPari(f, dan, D) ==
    LET vrstice == CHOOSE q \in Zaporedja(DelovnikNaDan(f, dan)) : TRUE
        rezervacije == CHOOSE q \in Zaporedja(Rezervacije(f, dan)) : TRUE
        delovniCas == [i \in 1..Len(vrstice) |->
                          [Zacetek |-> TimeStr(vrstice[i].Zacetek),
                           Konec |-> TimeStr(vrstice[i].Konec)]]
    IN razpolozljiviBloki(izracunajProsteBloke(delovniCas, rezervacije), D)

\* The start of the request of slot r lies within one of the returned pairs.
VPonujenemParu(r) ==
    LET z == zahteve[r]
        pari == PonujeniPari(z.frizer_ID, z.dan, SumTrajanje(StoritvePoID(z.storitve)))
    IN \E i \in 1..Len(pari) :
          /\ casVMinute(pari[i].od) <= casVMinute(z.ura)
          /\ casVMinute(z.ura) <= casVMinute(pari[i].do)

\* C22: availability and commit agree on one store: a commit that has passed
\* its checks starts within one of the pairs availability returns for the
\* same stylist, day and services, a commit refused with conflict does not,
\* and the whole interval [s, s + D) of every committed appointment lies
\* inside one work interval of its stylist.
C22_PonudbaInPotrditev ==
    /\ \A r \in Reze :
          (zahteve[r].vrsta = "rezervacija" /\ zahteve[r].faza = "transakcija")
          => VPonujenemParu(r)
    /\ \A r \in Reze :
          (Odgovorjena(r, "rezervacija") /\ zahteve[r].odgovor.status = 409)
          => ~VPonujenemParu(r)
    /\ \A t \in termini :
          \E d \in delovnik :
             /\ d.Frizerji_id = t.Frizerji_id
             /\ d.Dan = t.Cas_termina \div MinutNaDan
             /\ d.Zacetek <= t.Cas_termina % MinutNaDan
             /\ (KonecTermina(t) - (t.Cas_termina \div MinutNaDan) * MinutNaDan) <= d.Konec

\* The kind of an answer: success, not-found, invalid-request, conflict,
\* server-error.
VrstaOdgovora(status) ==
    IF status \in {200, 201} THEN "success"
    ELSE IF status = 404 THEN "not-found"
    ELSE IF status = 400 THEN "invalid-request"
    ELSE IF status = 409 THEN "conflict"
    ELSE "server-error"

\* C23: preview and commit apply the same validation: for one request body
\* on one store the preview succeeds exactly when the commit succeeds, and
\* when they fail they fail with the same kind of answer, whatever the
\* prices and durations of the services are.
C23_PredogledKotPotrditev ==
    LET p == zahteve[2]
        c == zahteve[1]
    IN (/\ Odgovorjena(2, "predogled") /\ Odgovorjena(1, "rezervacija")
        /\ c.frizer_ID = p.frizer_ID /\ c.dan = p.dan /\ c.ura = p.ura
        /\ c.storitve = p.storitve /\ c.videni = p.videni)
       => VrstaOdgovora(p.odgovor.status) = VrstaOdgovora(c.odgovor.status)

\* C24: a commit that answers invalid-request, not-found, conflict or
\* server-error (or ends without an answer) leaves the appointments and the
\* service lines as they were: every step that changes either set is the step
\* in which a commit answers 201, and nothing of a commit that ended otherwise
\* is in the store.
C24_NeuspehNePise ==
    /\ [](\A r \in Reze :
            (Odgovorjena(r, "rezervacija") /\ zahteve[r].odgovor.status # 201)
            => /\ \A t \in termini : t.ID # zahteve[r].insertId
               /\ \A l \in termini_storitve : l.Termini_id # zahteve[r].insertId)
    /\ [][(termini' # termini \/ termini_storitve' # termini_storitve)
          => \E r \in Reze :
                /\ Konca(r, "rezervacija")
                /\ zahteve'[r].odgovor.status = 201]_vars

\* A commit has failed after its appointment insert, next to an appointment
\* made before: the server error, and only the earlier appointment is stored.
C24_Primer ==
    \E r \in Reze :
        /\ Odgovorjena(r, "rezervacija")
        /\ zahteve[r].odgovor.status = 500
        /\ zahteve[r].po_vstavitvi
        /\ termini # {}
        /\ \A t \in termini : t.ID # zahteve[r].insertId

\* C25: a commit request whose handler has ended has got one response, of
\* the kinds success (201), invalid-request (400), not-found (404), conflict
\* (409) and server-error (500), also when a store operation has failed, and
\* the response is success only if the appointment and its lines are stored.
C25_EnOdgovor ==
    \A r \in Reze :
        Odgovorjena(r, "rezervacija")
        => /\ zahteve[r].odgovor.status \in {201, 400, 404, 409, 500}
           /\ zahteve[r].odgovor.status = 201
                => /\ \E t \in termini : t.ID = zahteve[r].insertId
                   /\ VrsticeZaTermin(zahteve[r].insertId) # {}

\* C26: a commit request holds the connection it acquired from its first
\* store operation until its handler ends and gives it back in the step
\* that ends the handler, on every exit path; a request that has ended, or a
\* free slot, holds no connection.
C26_PovezavaVrnjena ==
    /\ [](\A r \in Reze :
            /\ zahteve[r].faza \in {"prosta", "konec"} => ~zahteve[r].povezava
            /\ (zahteve[r].vrsta = "rezervacija" /\ VTeku(r)
                /\ zahteve[r].faza # "zacetek") => zahteve[r].povezava)
    /\ [][\A r \in Reze :
            (zahteve[r].povezava /\ ~zahteve'[r].povezava)
            => Konca(r, "rezervacija")]_vars

\* After a commit that met a store failure, a commit has ended by the early
\* return of the overlap check; it holds no connection.
C26_Primer ==
    /\ napake > 0
    /\ \E r \in Reze :
          /\ Odgovorjena(r, "rezervacija")
          /\ zahteve[r].odgovor.status = 409
          /\ ~zahteve[r].povezava

\* C27: of two cancel requests of the owner that are served at the same time
\* and both found the appointment, at most one answers with success (the
\* other with conflict), and the appointment ends Cancelled.
C27_NajvecEnPreklicUspe ==
    \A r1, r2 \in Reze :
        (/\ r1 # r2
         /\ Odgovorjena(r1, "preklic") /\ Odgovorjena(r2, "preklic")
         /\ zahteve[r1].termin_ID = zahteve[r2].termin_ID
         /\ zahteve[r1].uporabnik_ID = zahteve[r2].uporabnik_ID
         /\ zahteve[r1].termin # {} /\ zahteve[r2].termin # {}
         /\ zahteve[r1].odgovor.status = 200)
        => /\ zahteve[r2].odgovor.status = 409
           /\ \A t \in termini :
                 t.ID = zahteve[r1].termin_ID => t.Status = "Preklicano"

\* The Cancelled appointments of the stylist that overlap the interval
\* [zacetek, konec).
PreklicaniVIntervalu(f, zacetek, konec) ==
    {t \in termini :
        /\ t.Frizerji_id = f
        /\ t.Status = "Preklicano"
        /\ Prekrivanje(t.Cas_termina, KonecTermina(t), zacetek, konec)}

\* C28: a Cancelled appointment no longer blocks its slot: when availability
\* answers, every minute of a Cancelled appointment that lies in a work
\* interval and in no Reserved appointment is in a free block, and a commit
\* whose interval overlaps Cancelled appointments and no Reserved one is not
\* refused with 'Izbrani termin ni na voljo.'.
C28_PreklicanNeBlokira ==
    /\ [][\A r \in Reze :
            (Konca(r, "razpolozljivost") /\ zahteve'[r].odgovor.status = 200
             /\ zahteve'[r].delovnik # <<>>)
            => LET z == zahteve'[r] IN
               \A t \in termini :
                  (t.Frizerji_id = z.frizer_ID /\ t.Status = "Preklicano"
                   /\ t.Cas_termina \div MinutNaDan = z.dan)
                  => \A m \in MinuteDelovnika(z.delovnik) \ MinuteRezervacij(z.rezervacije) :
                        (t.Cas_termina <= z.dan * MinutNaDan + m
                         /\ z.dan * MinutNaDan + m < KonecTermina(t))
                        => m \in MinuteBlokov(z.prostiBloki)]_vars
    /\ [](\A r \in Reze :
            LET z == zahteve[r]
                zacetek == z.dan * MinutNaDan + z.ura[1] * 60 + z.ura[2]
            IN (/\ Odgovorjena(r, "rezervacija")
                /\ z.odgovor.status = 409
                /\ z.odgovor.message = "Izbrani termin ni na voljo."
                /\ PreklicaniVIntervalu(z.frizer_ID, zacetek, zacetek + z.trajanje) # {})
               => \E t \in termini :
                     /\ t.Frizerji_id = z.frizer_ID
                     /\ t.Status = "Rezervirano"
                     /\ Prekrivanje(t.Cas_termina, KonecTermina(t),
                                    zacetek, zacetek + z.trajanje))

\* C29: the no-overlap invariant survives the edit of a service: the step in
\* which PUT /storitve/{naziv} writes a new Trajanje never takes a store in
\* which no two Reserved appointments of a stylist overlap to one in which
\* two do.
C29_UrejanjeOhraniBrezPrekrivanja ==
    [][((\E r \in Reze : Konca(r, "storitev")) /\ C1_BrezPrekrivanja)
       => C1_BrezPrekrivanja']_vars

\* C30: usernames stay unique among the stylists: the signup whose check
\* finds the username taken answers 409 and creates no account, and under
\* every interleaving of signups no two accounts have one username.
C30_EnoImeEnRacun ==
    /\ [](\A a, b \in frizerji : a.Uporabnisko_ime = b.Uporabnisko_ime => a.ID = b.ID)
    /\ [][\A r \in Reze :
            (/\ zahteve[r].vrsta = "signup" /\ zahteve[r].faza = "zacetek"
             /\ zahteve'[r].faza # "zacetek"
             /\ zahteve[r].Uporabnisko_ime # "" /\ Len(zahteve[r].Specializacije) > 0
             /\ frizerObstaja(zahteve[r].Uporabnisko_ime))
            => /\ zahteve'[r].odgovor.status = 409
               /\ frizerji' = frizerji]_vars

====
